---------------------------- MODULE Spec2Model ----------------------------
(***************************************************************************)
(* A model of esneider/malloc (src/malloc.c): a boundary-tag allocator     *)
(* with size-classed circular free lists ("bins") kept inside a context    *)
(* struct at the head of the first buffer.                                 *)
(*                                                                         *)
(* Memory is modelled in-band, as the code uses it: a partial map from     *)
(* byte addresses to the cells that were stored there (a header word, a    *)
(* footer word or a pointer).  Storing a cell erases every cell whose      *)
(* bytes it overlaps.  Bytes never stored read as the buffer's prior       *)
(* contents (fill).  The build modelled is LP64: 4-byte header and footer  *)
(* words, 8-byte pointers, sizeof(struct free_header) = 24.                *)
(***************************************************************************)
EXTENDS Integers, Sequences, FiniteSets, TLC

\* ------------------------------------------------------------------ layout
NULL == 0

FREE_STATUS == 0

INUSE_STATUS == 1

MAX_SMALL_REQUEST == 256

\* sizeof( void* ) and sizeof( size_t ) of the LP64 build
PtrSize == 8

\* sizeof( struct inuse_header ): one 32-bit word of bitfields
SizeofInuseHeader == 4

\* _Alignof( struct inuse_header ): the alignment of its unsigned int word
HeaderAlign == 4

\* sizeof( struct footer )
SizeofFooter == 4

\* sizeof( struct free_header ): the word, padding to 8, two pointers
SizeofFreeHeader == 24

\* offsetof( struct free_header, next ) and offsetof( ..., prev )
OffNext == 8

OffPrev == 16

MIN_FREE_CHUNK_SIZE == SizeofFreeHeader + SizeofFooter

MIN_INUSE_CHUNK_SIZE == SizeofInuseHeader + SizeofFooter

\* sizeof( struct bound ) in add_malloc_buffer
SizeofBound == SizeofInuseHeader + SizeofFooter

\* bin_sizes[] without its last entry, 0x80000000, which is beyond the
\* integers TLC can hold; BinSizeLE below accounts for it.
bin_sizes ==
    <<   8,  16,  24,  32,  40,  48,  56,  64,  72,  80,
        88,  96, 104, 112, 120, 128, 136, 144, 152, 160,
       168, 176, 184, 192, 200, 208, 216, 224, 232, 240,
       248, 256, 264, 272, 280, 288, 296, 304, 312, 320,
       328, 336, 344, 352, 360, 368, 376, 384, 392, 400,
       408, 416, 424, 432, 440, 448, 456, 464, 472, 480,
       488, 496, 504, 512, 576, 640, 768, 1024, 2048, 4096,
       8192, 16384, 32768, 65536, 131072, 262144,
       524288, 1048576, 2097152, 4194304, 8388608, 16777216,
       33554432, 67108864, 134217728, 268435456, 536870912, 1073741824 >>

\* sizeof( bin_sizes ) / sizeof( bin_sizes[0] ): the table has 89 entries
BIN_NUMBER == Len(bin_sizes) + 1

\* bin_sizes[ i ] <= size, for the 0-based index i of the code.  Every size
\* the allocator handles is below 0x80000000 (31-bit field, find_bin's
\* assertion), so the last entry is never <= size.
BinSizeLE(i, size) == IF i = BIN_NUMBER - 1 THEN FALSE ELSE bin_sizes[i + 1] <= size

\* offsetof( struct memory_context, bins ): free_memory, last_chunk_size,
\* external_alloc, last_chunk come first
OffBins == 4 * PtrSize

SizeofContext == OffBins + BIN_NUMBER * SizeofFreeHeader

\* context->bins + i
BinAddr(ctx, i) == ctx + OffBins + i * SizeofFreeHeader

\* context->bins + BIN_NUMBER
BinsEnd(ctx) == BinAddr(ctx, BIN_NUMBER)

\* ------------------------------------------------------------------ bounds
\* address of the buffer given to init_malloc
Buf1 == 512 * PtrSize

\* bytes of the first buffer left for chunks, sentinels included
HeapBytes == 102

\* address of the buffer given to add_malloc_buffer
Buf2 == 1024 * PtrSize

\* addresses of the regions the growth callback hands out
GrowBase == 2048 * PtrSize

GrowStride == 128 * PtrSize

\* how many regions the growth callback can hand out before it fails
MaxGrow == 1

\* how many allocations the caller holds at once
MaxLive == 2

\* bytes of the buffer given to add_malloc_buffer, when large enough
Buf2Bytes == 44

\* sizes given to init_malloc: the context and too little for a chunk, or
\* the context and HeapBytes
InitSizes ==
    { SizeofContext + 2 * SizeofBound + MIN_FREE_CHUNK_SIZE - 1,
      SizeofContext + HeapBytes }

\* sizes given to add_malloc_buffer: one byte too small, and Buf2Bytes
Buf2Sizes ==
    { 2 * SizeofBound + MIN_FREE_CHUNK_SIZE - 1, Buf2Bytes }

\* sizes given to init_malloc for a heap that has to grow: too little for a
\* chunk, or room for one chunk of MIN_FREE_CHUNK_SIZE
SmallInitSizes ==
    { SizeofContext + 2 * SizeofBound + MIN_FREE_CHUNK_SIZE - 1,
      SizeofContext + 2 * SizeofBound + MIN_FREE_CHUNK_SIZE }

\* byte counts the caller asks malloc for
ReqSizes == { 0, 21, 60 }

\* how many allocations the caller of the tie-break runs holds at once
TieLive == 3

\* byte counts the caller of the tie-break runs asks malloc for
TieSizes == { 0, 21 }

\* bytes of the first buffer left for chunks in the runs of the locality
\* heuristic: the sentinels and three chunks of MAX_SMALL_REQUEST + 2 bytes,
\* the last with two bytes more
LocalHeapBytes == 792

\* byte counts asked for in those runs: they need chunks of
\* MAX_SMALL_REQUEST, MAX_SMALL_REQUEST + 1 and MAX_SMALL_REQUEST + 2 bytes
LocalSizes ==
    { MAX_SMALL_REQUEST - MIN_INUSE_CHUNK_SIZE,
      MAX_SMALL_REQUEST + 1 - MIN_INUSE_CHUNK_SIZE,
      MAX_SMALL_REQUEST + 2 - MIN_INUSE_CHUNK_SIZE }

\* find_bin is tried on the sizes within ProbeSpread bytes of an entry of
\* bin_sizes, from 8 up: the entry, and the sizes around it
ProbeSpread == 1

ProbeSizes ==
    { s \in UNION { (bin_sizes[i] - ProbeSpread)..(bin_sizes[i] + ProbeSpread) :
                      i \in DOMAIN bin_sizes } : s >= bin_sizes[1] }

\* ------------------------------------------------------------------ memory
VARIABLES
    context,          \* static struct memory_context* context
    mem,              \* the bytes of all buffers, as stored cells
    free_memory,      \* context->free_memory
    last_chunk_size,  \* context->last_chunk_size
    external_alloc,   \* context->external_alloc is set
    last_chunk,       \* context->last_chunk
    fill,             \* prior contents of the buffers: every bit 0 or every bit 1
    buffers,          \* regions that add_malloc_buffer took: <<address, size>>
    grown,            \* regions handed out by the growth callback so far
    live,             \* pointers the caller holds |-> bytes it asked for
    free0,            \* free_memory as read right after init_malloc
    fault,            \* an assertion failed, unsigned arithmetic wrapped, or
                      \* the caller wrote past the chunk it was given
    last              \* the last call: its name, argument, result, callback calls

vars == << context, mem, free_memory, last_chunk_size, external_alloc,
           last_chunk, fill, buffers, grown, live, free0, fault, last >>

\* the fields of the context and every stored cell
ctxvars == << context, mem, free_memory, last_chunk_size, external_alloc,
              last_chunk >>

\* bytes a cell of kind k occupies
Width(k) == IF k = "p" THEN PtrSize ELSE SizeofFooter

\* the cells of m whose bytes a store of kind k at address a overlaps
Clobbered(m, a, k) ==
    { b \in ((a - PtrSize + 1)..(a + Width(k) - 1)) \cap DOMAIN m :
         b # a /\ a < b + Width(m[b].k) }

Store(m, a, c) ==
    LET gone == Clobbered(m, a, c.k)
    IN  IF gone = {} /\ a \in DOMAIN m
        THEN [m EXCEPT ![a] = c]
        ELSE (a :> c) @@ [b \in DOMAIN m \ (gone \cup {a}) |-> m[b]]

\* The caller writes the n bytes it asked for at p: the cells stored there
\* are gone, and the bytes read as the pattern the buffers held at first.
CallerWrites(m, p, n) ==
    LET gone == { b \in DOMAIN m : b < p + n /\ p < b + Width(m[b].k) }
    IN  IF gone = {} THEN m ELSE [b \in DOMAIN m \ gone |-> m[b]]

\* what bytes that were never stored read as, as a size or pointer
Garbage == IF fill = 0 THEN 0 ELSE 1073741823

\* header->status: bit 0 of the word at a
status(m, a) ==
    IF a \in DOMAIN m
    THEN IF m[a].k = "h" THEN m[a].s ELSE m[a].v % 2
    ELSE fill

\* header->size: bits 1..31 of the word at a
size(m, a) ==
    IF a \in DOMAIN m
    THEN IF m[a].k = "h" THEN m[a].v ELSE m[a].v \div 2
    ELSE Garbage

\* footer->size: the whole word at a
fsize(m, a) ==
    IF a \in DOMAIN m
    THEN IF m[a].k = "h" THEN 2 * m[a].v + m[a].s ELSE m[a].v
    ELSE Garbage

\* a pointer stored at a
ptr(m, a) == IF a \in DOMAIN m /\ m[a].k = "p" THEN m[a].v ELSE Garbage

next(m, h) == ptr(m, h + OffNext)

prev(m, h) == ptr(m, h + OffPrev)

\* header->status = st; header->size = sz;
SetHeader(m, h, st, sz) == Store(m, h, [k |-> "h", s |-> st, v |-> sz])

SetFooter(m, f, sz) == Store(m, f, [k |-> "f", s |-> 0, v |-> sz])

SetNext(m, h, p) == Store(m, h + OffNext, [k |-> "p", s |-> 0, v |-> p])

SetPrev(m, h, p) == Store(m, h + OffPrev, [k |-> "p", s |-> 0, v |-> p])

\* ------------------------------------------------------------------ search
RECURSIVE find_bin_loop(_, _, _)
find_bin_loop(min_bin, max_bin, sz) ==
    IF min_bin + 1 # max_bin
    THEN LET curr_bin == (min_bin + max_bin) \div 2
         IN  IF BinSizeLE(curr_bin, sz)
             THEN find_bin_loop(curr_bin, max_bin, sz)
             ELSE find_bin_loop(min_bin, curr_bin, sz)
    ELSE min_bin

\* the smallest index whose bin_sizes entry is <= sz, in place of the search
FindBinIndexSmallest(sz) ==
    CHOOSE i \in 0..(BIN_NUMBER - 1) :
       BinSizeLE(i, sz) /\ \A j \in 0..(BIN_NUMBER - 1) : BinSizeLE(j, sz) => i <= j

\* the index of the bin find_bin returns
find_bin_index(sz) == find_bin_loop(0, BIN_NUMBER, sz)

find_bin(ctx, sz) == BinAddr(ctx, find_bin_index(sz))

\* find_chunk that does not look at sizes: the head of the list
FindChunkHead(m, bin, sz) == next(m, bin)

RECURSIVE find_chunk_loop(_, _, _, _)
find_chunk_loop(m, bin, chunk, sz) ==
    LET c == next(m, chunk)
    IN  IF c # bin /\ size(m, c) < sz THEN find_chunk_loop(m, bin, c, sz) ELSE c

find_chunk(m, bin, sz) == find_chunk_loop(m, bin, bin, sz)

\* find_upper_chunk that does not look at sizes: the head of the list
FindUpperChunkHead(m, bin, sz) == next(m, bin)

\* find_upper_chunk with < for <=: it stops at the first chunk of the size
FindUpperChunkAtSize(m, bin, sz) == find_chunk(m, bin, sz)

RECURSIVE find_upper_chunk_loop(_, _, _, _)
find_upper_chunk_loop(m, bin, chunk, sz) ==
    LET c == next(m, chunk)
    IN  IF c # bin /\ size(m, c) <= sz THEN find_upper_chunk_loop(m, bin, c, sz) ELSE c

find_upper_chunk(m, bin, sz) == find_upper_chunk_loop(m, bin, bin, sz)

\* ------------------------------------------------------------ the context
\* F applied to the value of v: v is evaluated once, as a C local is
Let(v, F(_)) == CHOOSE r \in { F(x) : x \in {v} } : TRUE

\* The context and what surrounds a call: H.fault is set when an assertion
\* of the code fails or its unsigned arithmetic wraps; H.calls lists the
\* min_bytes of every call of the growth callback made by the current call.
Heap ==
    [ context |-> context, mem |-> mem, free_memory |-> free_memory,
      last_chunk_size |-> last_chunk_size, external_alloc |-> external_alloc,
      last_chunk |-> last_chunk, buffers |-> buffers, grown |-> grown,
      calls |-> << >>, fault |-> FALSE ]

Fault(H) == [H EXCEPT !.fault = TRUE]

\* Unlink without its second statement
UnlinkForward(m, chunk) == SetNext(m, prev(m, chunk), next(m, chunk))

\* chunk->prev->next = chunk->next; chunk->next->prev = chunk->prev;
Unlink(m, chunk) ==
    Let(SetNext(m, prev(m, chunk), next(m, chunk)), LAMBDA m1 :
        SetPrev(m1, next(m1, chunk), prev(m1, chunk)))

\* the stores of add_free_chunk, in the order of the code
AddFreeChunkMem(m, ctx, memory, sz) ==
    Let(SetHeader(m, memory, FREE_STATUS, sz), LAMBDA m1 :
    Let(SetNext(m1, memory, find_upper_chunk(m1, find_bin(ctx, sz), sz)), LAMBDA m2 :
    Let(SetPrev(m2, memory, prev(m2, next(m2, memory))), LAMBDA m3 :
    Let(SetPrev(m3, next(m3, memory), memory), LAMBDA m4 :
    Let(SetNext(m4, prev(m4, memory), memory), LAMBDA m5 :
        SetFooter(m5, memory + sz - SizeofFooter, sz))))))

add_free_chunk(H, memory, sz) ==
    IF sz < MIN_FREE_CHUNK_SIZE
    THEN Fault(H)
    ELSE [H EXCEPT !.mem = AddFreeChunkMem(H.mem, H.context, memory, sz)]

\* SetInuse without its last statement, the store of the footer
SetInuseNoFooter(m, header, sz) ==
    SetPrev(SetNext(SetHeader(m, header, INUSE_STATUS, sz), header, NULL),
            header, NULL)

\* header->status = INUSE_STATUS; ... ; the footer: the stores of split_chunk
SetInuse(m, header, sz) ==
    SetFooter(SetPrev(SetNext(SetHeader(m, header, INUSE_STATUS, sz),
                              header, NULL),
                      header, NULL),
              header + sz - SizeofFooter, sz)

\* split_chunk that never splits: the whole chunk is handed out
SplitHeldWhole(H, header, sz, held) ==
    IF held < sz
    THEN [H |-> Fault(H), ret |-> header + SizeofInuseHeader]
    ELSE [H |-> [H EXCEPT !.mem = SetInuse(H.mem, header, held),
                          !.free_memory = @ - held,
                          !.last_chunk_size = 0],
          ret |-> header + SizeofInuseHeader]

\* split_chunk once header->size is read: `held`
SplitHeld(H, header, sz, held) ==
    IF held < sz
    THEN [H |-> Fault(H), ret |-> header + SizeofInuseHeader]
    ELSE IF held - sz < MIN_FREE_CHUNK_SIZE
    THEN [H |-> [H EXCEPT !.mem = SetInuse(H.mem, header, held),
                          !.free_memory = @ - held,
                          !.last_chunk_size = 0],
          ret |-> header + SizeofInuseHeader]
    ELSE Let(add_free_chunk([H EXCEPT !.last_chunk = header + sz],
                            header + sz, held - sz), LAMBDA H1 :
             [H |-> [H1 EXCEPT !.mem = SetInuse(H1.mem, header, sz),
                               !.free_memory = @ - sz,
                               !.last_chunk_size = held - sz],
              ret |-> header + SizeofInuseHeader])

split_chunk(H, header, sz) == SplitHeld(H, header, sz, size(H.mem, header))

\* the two sentinels of add_malloc_buffer
SetBounds(m, memory, sz) ==
    SetFooter(SetHeader(SetFooter(SetHeader(m, memory, INUSE_STATUS, SizeofBound),
                                  memory + SizeofInuseHeader, SizeofBound),
                        memory + sz - SizeofBound, INUSE_STATUS, SizeofBound),
              memory + sz - SizeofBound + SizeofInuseHeader, SizeofBound)

\* add_malloc_buffer without context->free_memory += size
AddMallocBufferUncounted(H, memory, sz) ==
    IF sz < 2 * SizeofBound + MIN_FREE_CHUNK_SIZE
    THEN H
    ELSE Let([H EXCEPT !.mem = SetBounds(H.mem, memory, sz),
                       !.buffers = @ \cup {<<memory, sz>>}], LAMBDA H1 :
             add_free_chunk(H1, memory + SizeofBound, sz - 2 * SizeofBound))

add_malloc_buffer(H, memory, sz) ==
    IF sz < 2 * SizeofBound + MIN_FREE_CHUNK_SIZE
    THEN H
    ELSE Let([H EXCEPT !.mem = SetBounds(H.mem, memory, sz),
                       !.buffers = @ \cup {<<memory, sz>>}], LAMBDA H1 :
         Let(add_free_chunk(H1, memory + SizeofBound, sz - 2 * SizeofBound),
             LAMBDA H2 :
             [H2 EXCEPT !.free_memory = @ + (sz - 2 * SizeofBound)]))

\* for ( bin = context->bins; (void*)bin < memory; bin++ ): every bin gets
\* its size and its two links; its status bit keeps what the buffer held.
\* The loop runs BIN_NUMBER times, as memory is the end of the bin array.
InitBins(m, ctx) ==
    LET bins == { BinAddr(ctx, i) : i \in 0..(BIN_NUMBER - 1) }
        links == { b + OffNext : b \in bins } \cup { b + OffPrev : b \in bins }
        lost == { b \in DOMAIN m :
                    /\ b + Width(m[b].k) > BinAddr(ctx, 0)
                    /\ b < BinsEnd(ctx)
                    /\ \E a \in (b - PtrSize + 1)..(b + Width(m[b].k) - 1) :
                          \/ a \in bins /\ b < a + SizeofInuseHeader
                          \/ a \in links }
    IN  [ a \in (DOMAIN m \ lost) \cup bins \cup links |->
            IF a \in bins
            THEN [k |-> "h", s |-> status(m, a), v |-> SizeofFreeHeader]
            ELSE IF a \in links
            THEN [k |-> "p", s |-> 0,
                  v |-> IF (a - OffNext) \in bins THEN a - OffNext ELSE a - OffPrev]
            ELSE m[a] ]

\* context->last_chunk is not assigned: it keeps what the buffer held
init_malloc(H, memory, sz) ==
    IF sz < SizeofContext
    THEN Fault(H)
    ELSE Let([H EXCEPT !.context = memory,
                       !.free_memory = 0,
                       !.last_chunk_size = 0,
                       !.external_alloc = FALSE,
                       !.last_chunk = ptr(H.mem, memory + 3 * PtrSize),
                       !.mem = InitBins(H.mem, memory)], LAMBDA H1 :
             add_malloc_buffer(H1, memory + SizeofContext, sz - SizeofContext))

\* ---------------------------------------------------------------- malloc
\* The growth callback's answers: no region, a region shorter than asked,
\* or a region of the bytes asked for plus `extra`.
CbOutcomes ==
    { [kind |-> "null", extra |-> 0], [kind |-> "short", extra |-> 0],
      [kind |-> "ok", extra |-> 0], [kind |-> "ok", extra |-> 4 * PtrSize] }

\* new_memory and new_size of context->external_alloc( total_size, &new_size )
CbMemory(H, cb) ==
    IF cb.kind = "null" \/ H.grown >= MaxGrow THEN NULL
    ELSE GrowBase + H.grown * GrowStride

CbSize(cb, total_size) ==
    IF cb.kind = "short" THEN total_size - 1 ELSE total_size + cb.extra

\* for ( ...; bin == bin->next; ) if ( ++bin >= context->bins + BIN_NUMBER )
\* the bin the loop stops at: the first bin from `bin` on whose list is not
\* empty, or NULL when the loop runs past the last bin
SkipEmpty(H, bin) ==
    LET last_bin == BinsEnd(H.context) - SizeofFreeHeader
        stops == { b \in { bin + i * SizeofFreeHeader : i \in 0..BIN_NUMBER } :
                     (b <= last_bin \/ b = bin) /\ b # next(H.mem, b) }
    IN  IF stops = {} THEN NULL
        ELSE CHOOSE b \in stops : \A c \in stops : b <= c

\* the reads of a loop that tests the bound after reading bin->next: when
\* it runs out of bins it has read the memory after the last of them
LoopReadsLate(H, bin) ==
    Let(SkipEmpty(H, bin), LAMBDA stop :
        { bin } \cup
        { b \in { bin + i * SizeofFreeHeader : i \in 0..BIN_NUMBER } :
             b <= (IF stop = NULL THEN BinsEnd(H.context) ELSE stop) })

\* The bins whose next pointer that loop reads: `bin`, read before any test,
\* and every later bin up to the one the loop stops at, or up to the last bin
\* when it runs past it.
LoopReads(H, bin) ==
    Let(SkipEmpty(H, bin), LAMBDA stop :
        { bin } \cup
        { b \in { bin + i * SizeofFreeHeader : i \in 0..BIN_NUMBER } :
             b <= (IF stop = NULL THEN BinsEnd(H.context) - SizeofFreeHeader
                   ELSE stop) })

\* The bins read by the two loops of malloc looking for sz bytes: the second
\* loop starts at bin + 1 when find_chunk found no chunk in bin.
MallocReads(H, sz) ==
    IF sz > H.free_memory THEN {}
    ELSE Let(SkipEmpty(H, find_bin(H.context, sz)), LAMBDA bin1 :
         LoopReads(H, find_bin(H.context, sz)) \cup
         (IF bin1 = NULL THEN {}
          ELSE IF find_chunk(H.mem, bin1, sz) # bin1 THEN {}
          ELSE LoopReads(H, bin1 + SizeofFreeHeader)))

\* the heuristic without its third test, size <= MAX_SMALL_REQUEST
LocalityAnySize(H, chunk, sz) ==
    IF sz < size(H.mem, chunk) /\ sz <= H.last_chunk_size
    THEN H.last_chunk
    ELSE chunk

\* the locality heuristic of malloc: the chunk to take
Locality(H, chunk, sz) ==
    IF sz < size(H.mem, chunk) /\ sz <= H.last_chunk_size /\ sz <= MAX_SMALL_REQUEST
    THEN H.last_chunk
    ELSE chunk

\* Need without its first statement, size += MIN_INUSE_CHUNK_SIZE
NeedNoOverhead(request) ==
    IF request < MIN_FREE_CHUNK_SIZE THEN MIN_FREE_CHUNK_SIZE ELSE request

\* the size malloc looks for: size += MIN_INUSE_CHUNK_SIZE, raised to
\* MIN_FREE_CHUNK_SIZE
Need(request) ==
    IF request + MIN_INUSE_CHUNK_SIZE < MIN_FREE_CHUNK_SIZE
    THEN MIN_FREE_CHUNK_SIZE
    ELSE request + MIN_INUSE_CHUNK_SIZE

\* take the chunk out of the bin and split it
TakeChunk(H, chunk, sz) ==
    Let([H EXCEPT !.mem = Unlink(H.mem, chunk)], LAMBDA H1 :
        split_chunk(H1, chunk, sz))

\* The search without its second loop: when no chunk of the first bin that
\* is not empty fits, it gives up
SearchChunkOneBin(H, sz) ==
    IF sz > H.free_memory THEN NULL
    ELSE Let(SkipEmpty(H, find_bin(H.context, sz)), LAMBDA bin1 :
         IF bin1 = NULL THEN NULL
         ELSE Let(find_chunk(H.mem, bin1, sz), LAMBDA found :
              IF found # bin1 THEN found ELSE NULL))

\* The search of malloc: the chunk found before the locality heuristic, or
\* NULL where the code returns out_of_memory( size ).
SearchChunk(H, sz) ==
    IF sz > H.free_memory THEN NULL
    ELSE Let(SkipEmpty(H, find_bin(H.context, sz)), LAMBDA bin1 :
         IF bin1 = NULL THEN NULL
         ELSE Let(find_chunk(H.mem, bin1, sz), LAMBDA found :
              IF found # bin1 THEN found
              ELSE Let(SkipEmpty(H, bin1 + SizeofFreeHeader), LAMBDA bin2 :
                   IF bin2 = NULL THEN NULL ELSE next(H.mem, bin2))))

RECURSIVE malloc(_, _, _)
\* out_of_memory without the test new_size < total_size
OutOfMemoryNoSizeTest(H, sz, cb) ==
    IF ~H.external_alloc
    THEN [H |-> H, ret |-> NULL]
    ELSE Let(sz + 2 * MIN_INUSE_CHUNK_SIZE, LAMBDA total_size :
         Let([H EXCEPT !.calls = Append(@, total_size)], LAMBDA H1 :
         IF CbMemory(H, cb) = NULL
         THEN [H |-> H1, ret |-> NULL]
         ELSE Let(add_malloc_buffer([H1 EXCEPT !.grown = @ + 1],
                                    CbMemory(H, cb), CbSize(cb, total_size)),
                  LAMBDA H2 : malloc(H2, sz - MIN_INUSE_CHUNK_SIZE, cb))))

\* out_of_memory that asks for the chunk and one sentinel:
\* total_size = size + MIN_INUSE_CHUNK_SIZE
OutOfMemoryOneBound(H, sz, cb) ==
    IF ~H.external_alloc
    THEN [H |-> H, ret |-> NULL]
    ELSE Let(sz + MIN_INUSE_CHUNK_SIZE, LAMBDA total_size :
         Let([H EXCEPT !.calls = Append(@, total_size)], LAMBDA H1 :
         IF CbMemory(H, cb) = NULL \/ CbSize(cb, total_size) < total_size
         THEN [H |-> H1, ret |-> NULL]
         ELSE Let(add_malloc_buffer([H1 EXCEPT !.grown = @ + 1],
                                    CbMemory(H, cb), CbSize(cb, total_size)),
                  LAMBDA H2 : malloc(H2, sz - MIN_INUSE_CHUNK_SIZE, cb))))

\* out_of_memory that retries without add_malloc_buffer( new_memory, new_size )
OutOfMemoryUnregistered(H, sz, cb) ==
    IF ~H.external_alloc
    THEN [H |-> H, ret |-> NULL]
    ELSE Let(sz + 2 * MIN_INUSE_CHUNK_SIZE, LAMBDA total_size :
         Let([H EXCEPT !.calls = Append(@, total_size)], LAMBDA H1 :
         IF CbMemory(H, cb) = NULL \/ CbSize(cb, total_size) < total_size
         THEN [H |-> H1, ret |-> NULL]
         ELSE malloc([H1 EXCEPT !.grown = @ + 1], sz - MIN_INUSE_CHUNK_SIZE, cb)))

out_of_memory(H, sz, cb) ==
    IF ~H.external_alloc
    THEN [H |-> H, ret |-> NULL]
    ELSE Let(sz + 2 * MIN_INUSE_CHUNK_SIZE, LAMBDA total_size :
         Let([H EXCEPT !.calls = Append(@, total_size)], LAMBDA H1 :
         IF CbMemory(H, cb) = NULL \/ CbSize(cb, total_size) < total_size
         THEN [H |-> H1, ret |-> NULL]
         ELSE Let(add_malloc_buffer([H1 EXCEPT !.grown = @ + 1],
                                    CbMemory(H, cb), CbSize(cb, total_size)),
                  LAMBDA H2 : malloc(H2, sz - MIN_INUSE_CHUNK_SIZE, cb))))

malloc(H, request, cb) ==
    Let(Need(request), LAMBDA sz :
    Let(SearchChunk(H, sz), LAMBDA chunk :
        IF chunk = NULL
        THEN out_of_memory(H, sz, cb)
        ELSE TakeChunk(H, Locality(H, chunk, sz), sz)))

\* ------------------------------------------------------------------ free
\* JoinPrev that never joins
JoinPrevNever(m, header, sz) ==
    [mem |-> m, header |-> header, size |-> sz, ok |-> TRUE]

\* JoinNext that never joins
JoinNextNever(m, cont_header, sz) ==
    [mem |-> m, size |-> sz, joined |-> FALSE, ok |-> TRUE]

\* Try to join with previous chunk: the memory, the header and the size
\* after it; ok is the assertion on the previous chunk's footer
JoinPrev(m, header, sz) ==
    Let(header - fsize(m, header - SizeofFooter), LAMBDA cont_header :
        IF status(m, cont_header) # FREE_STATUS
        THEN [mem |-> m, header |-> header, size |-> sz, ok |-> TRUE]
        ELSE [mem |-> Unlink(m, cont_header), header |-> cont_header,
              size |-> sz + size(m, cont_header),
              ok |-> size(m, cont_header) = fsize(m, header - SizeofFooter)])

\* Try to join with next chunk: cont_header is footer + 1
JoinNext(m, cont_header, sz) ==
    IF status(m, cont_header) # FREE_STATUS
    THEN [mem |-> m, size |-> sz, joined |-> FALSE, ok |-> TRUE]
    ELSE [mem |-> Unlink(m, cont_header), size |-> sz + size(m, cont_header),
          joined |-> TRUE,
          ok |-> size(m, cont_header) =
                 fsize(m, cont_header + size(m, cont_header) - SizeofFooter)]

\* Coalesce without if ( context->last_chunk == cont_header )
\* context->last_chunk_size = 0;
CoalesceKeepHint(H, header, sz) ==
    Let(JoinPrev(H.mem, header, sz), LAMBDA p :
    IF ~p.ok THEN Fault([H EXCEPT !.free_memory = @ + sz])
    ELSE Let(JoinNext(p.mem, header + sz, p.size), LAMBDA n :
         IF ~n.ok THEN Fault([H EXCEPT !.free_memory = @ + sz, !.mem = p.mem])
         ELSE Let([H EXCEPT !.mem = n.mem, !.free_memory = @ + sz], LAMBDA H1 :
                  add_free_chunk(H1, p.header, n.size))))

\* free once the chunk passed its assertions: join the neighbours, count the
\* bytes, add the chunk
Coalesce(H, header, sz) ==
    Let(JoinPrev(H.mem, header, sz), LAMBDA p :
    IF ~p.ok THEN Fault([H EXCEPT !.free_memory = @ + sz])
    ELSE Let(JoinNext(p.mem, header + sz, p.size), LAMBDA n :
         IF ~n.ok THEN Fault([H EXCEPT !.free_memory = @ + sz, !.mem = p.mem])
         ELSE Let([H EXCEPT !.mem = n.mem,
                            !.free_memory = @ + sz,
                            !.last_chunk_size =
                               IF n.joined /\ H.last_chunk = header + sz
                               THEN 0 ELSE @], LAMBDA H1 :
                  add_free_chunk(H1, p.header, n.size))))

\* free without context->free_memory += size
FreeUncounted(H, memory) ==
    IF memory = NULL THEN H
    ELSE [Coalesce(H, memory - SizeofInuseHeader,
                   size(H.mem, memory - SizeofInuseHeader))
             EXCEPT !.free_memory = H.free_memory]

\* free without if ( memory == NULL ) return;
FreeNoNullCheck(H, memory) ==
    Let(memory - SizeofInuseHeader, LAMBDA header :
    Let(size(H.mem, header), LAMBDA sz :
        IF ~(header + sz <= H.context \/ header >= H.context + SizeofContext)
        THEN Fault(H)
        ELSE IF status(H.mem, header) # INUSE_STATUS
        THEN Fault(H)
        ELSE IF sz # fsize(H.mem, header + sz - SizeofFooter)
        THEN Fault(H)
        ELSE Coalesce(H, header, sz)))

free(H, memory) ==
    IF memory = NULL THEN H
    ELSE Let(memory - SizeofInuseHeader, LAMBDA header :
         Let(size(H.mem, header), LAMBDA sz :
         IF ~(header + sz <= H.context \/ header >= H.context + SizeofContext)
         THEN Fault(H)
         ELSE IF status(H.mem, header) # INUSE_STATUS
         THEN Fault(H)
         ELSE IF sz # fsize(H.mem, header + sz - SizeofFooter)
         THEN Fault(H)
         ELSE Coalesce(H, header, sz)))

\* --------------------------------------------------------------- realloc
\* memcpy( dst, src, n ) for regions that do not overlap: the cells stored
\* wholly inside the source are stored again at the same offset of the
\* destination, every other byte of the destination reads as never stored
Memcpy(m, dst, src, n) ==
    LET gone == { b \in DOMAIN m : b < dst + n /\ dst < b + Width(m[b].k) }
        from == { b \in DOMAIN m : src <= b /\ b + Width(m[b].k) <= src + n }
        to   == { b - src + dst : b \in from }
    IN  [ a \in (DOMAIN m \ gone) \cup to |->
            IF a \in to THEN m[a - dst + src] ELSE m[a] ]

\* what realloc returns: the context it leaves, the pointer (NULL when an
\* assertion stopped the call), the bytes it gave to memcpy
Returns(H, ret, copied) ==
    [H |-> H, ret |-> IF H.fault THEN NULL ELSE ret, copied |-> copied]

\* if fits in current chunk: the tail is made a chunk and freed
ShrinkInPlace(H, memory, header, footer, sz, held) ==
    IF held - sz < MIN_FREE_CHUNK_SIZE
    THEN Returns(H, memory, 0)
    ELSE Let(SetHeader(H.mem, header, status(H.mem, header), sz), LAMBDA m1 :
         Let(SetHeader(m1, header + sz, INUSE_STATUS, held - sz), LAMBDA m2 :
         Let(SetFooter(m2, footer, held - sz), LAMBDA m3 :
         Let(SetFooter(m3, header + sz - SizeofFooter, sz), LAMBDA m4 :
             Returns(free([H EXCEPT !.mem = m4],
                          header + sz + SizeofInuseHeader), memory, 0)))))

\* the test of realloc for taking in the next chunk
AbsorbTest(m, next_header, held, sz) ==
    /\ status(m, next_header) = FREE_STATUS
    /\ size(m, next_header) + held < sz

\* the next chunk is taken in: the stores of realloc, in the order of the code
AbsorbNext(H, memory, header, footer, next_header, held) ==
    Let(size(H.mem, next_header), LAMBDA nsz :
    Let(SetHeader(H.mem, header, status(H.mem, header), held + nsz), LAMBDA m1 :
    Let(SetFooter(m1, footer + nsz, held + nsz), LAMBDA m2 :
    Let(SetPrev(m2, next(m2, next_header), prev(m2, next_header)), LAMBDA m3 :
    Let(SetNext(m3, prev(m3, next_header), next(m3, next_header)), LAMBDA m4 :
    Let(SetPrev(SetNext(m4, next_header, NULL), next_header, NULL), LAMBDA m5 :
        Returns([H EXCEPT !.mem = m5,
                          !.free_memory = @ - size(m5, next_header),
                          !.last_chunk_size = 0], memory, 0)))))))

\* else use an entirely new chunk: malloc, memcpy of `request` bytes, free
MoveChunk(H, memory, request, cb) ==
    Let(malloc(H, request, cb), LAMBDA r :
        IF r.ret = NULL \/ r.H.fault
        THEN Returns(r.H, r.ret, 0)
        ELSE Returns(free([r.H EXCEPT !.mem = Memcpy(@, r.ret, memory, request)],
                          memory), r.ret, request))

realloc(H, memory, request, cb) ==
    IF memory = NULL
    THEN Let(malloc(H, request, cb), LAMBDA r : Returns(r.H, r.ret, 0))
    ELSE Let(memory - SizeofInuseHeader, LAMBDA header :
         Let(size(H.mem, header), LAMBDA held :
         Let(header + held - SizeofFooter, LAMBDA footer :
         Let(request + MIN_INUSE_CHUNK_SIZE, LAMBDA sz :
             IF status(H.mem, header) # INUSE_STATUS
             THEN Returns(Fault(H), NULL, 0)
             ELSE IF held # fsize(H.mem, footer)
             THEN Returns(Fault(H), NULL, 0)
             ELSE IF sz <= held
             THEN ShrinkInPlace(H, memory, header, footer, sz, held)
             ELSE IF AbsorbTest(H.mem, footer + SizeofFooter, held, sz)
             THEN AbsorbNext(H, memory, header, footer,
                             footer + SizeofFooter, held)
             ELSE MoveChunk(H, memory, request, cb)))))

\* ---------------------------------------------------------- check_malloc
\* the walk of one bin's list from `block`: the first offending address, or
\* NULL with the bytes walked
RECURSIVE CheckList(_, _, _, _, _)
CheckList(m, bin, block, lst, walked) ==
    IF block = bin THEN [bad |-> NULL, walked |-> walked]
    ELSE IF status(m, block) # FREE_STATUS THEN [bad |-> block, walked |-> walked]
    ELSE IF prev(m, block) # lst THEN [bad |-> block, walked |-> walked]
    ELSE IF size(m, block) # fsize(m, block + size(m, block) - SizeofFooter)
    THEN [bad |-> block + size(m, block) - SizeofFooter, walked |-> walked]
    ELSE CheckList(m, bin, next(m, block), block, walked + size(m, block))

\* what the loop body of check_malloc finds in one bin
CheckBin(m, bin) ==
    IF status(m, bin) # FREE_STATUS THEN [bad |-> bin, walked |-> 0]
    ELSE IF size(m, bin) # SizeofFreeHeader THEN [bad |-> bin, walked |-> 0]
    ELSE CheckList(m, bin, next(m, bin), bin, 0)

RECURSIVE SumWalked(_, _)
SumWalked(m, bins) ==
    IF bins = {} THEN 0
    ELSE Let(CHOOSE x \in bins : TRUE, LAMBDA b :
             CheckBin(m, b).walked + SumWalked(m, bins \ {b}))

\* the first offending address in bin order, else the context when the sizes
\* walked do not add up to free_memory, else NULL
check_malloc(H) ==
    Let({ BinAddr(H.context, i) : i \in 0..(BIN_NUMBER - 1) }, LAMBDA bins :
    Let({ b \in bins : CheckBin(H.mem, b).bad # NULL }, LAMBDA bad :
        IF bad # {}
        THEN CheckBin(H.mem, CHOOSE b \in bad : \A c \in bad : b <= c).bad
        ELSE IF H.free_memory
                  # SumWalked(H.mem, { b \in bins : b # next(H.mem, b) })
        THEN H.context
        ELSE NULL))

\* --------------------------------------------------------------- actions
Init ==
    /\ context = NULL
    /\ mem = << >>
    /\ free_memory = 0
    /\ last_chunk_size = 0
    /\ external_alloc = FALSE
    /\ last_chunk = NULL
    /\ fill \in {0, 1}
    /\ buffers = {}
    /\ grown = 0
    /\ live = << >>
    /\ free0 = 0
    /\ fault = FALSE
    /\ last = [op |-> "none", arg |-> NULL, ret |-> NULL, calls |-> << >>]

\* the state a call leaves behind
Apply(H) ==
    /\ context' = H.context
    /\ mem' = H.mem
    /\ free_memory' = H.free_memory
    /\ last_chunk_size' = H.last_chunk_size
    /\ external_alloc' = H.external_alloc
    /\ last_chunk' = H.last_chunk
    /\ buffers' = H.buffers
    /\ grown' = H.grown
    /\ fault' = H.fault
    /\ fill' = fill

\* what is kept of a call: its name, its pointer or size argument, the
\* pointer it returned and the min_bytes of each call of the growth callback
Call(name, a, r, c) == [op |-> name, arg |-> a, ret |-> r, calls |-> c]

\* init_malloc( Buf1, sz ), once, on a buffer of any contents
InitMallocOf(sizes) ==
    /\ context = NULL
    /\ ~fault
    /\ \E sz \in sizes :
          \E H \in { init_malloc(Heap, Buf1, sz) } :
              /\ Apply(H)
              /\ free0' = H.free_memory
              /\ last' = Call("init", sz, NULL, << >>)
    /\ UNCHANGED live

InitMalloc == InitMallocOf(InitSizes)

\* init_malloc on a buffer with room for no chunk, or for one smallest chunk:
\* the heap that has to grow
InitMallocSmall == InitMallocOf(SmallInitSizes)

\* add_malloc_buffer( Buf2, sz ); a buffer is registered once
AddBuffer ==
    /\ context # NULL
    /\ ~fault
    /\ \A b \in buffers : b[1] # Buf2
    /\ \E sz \in Buf2Sizes :
          \E H \in { add_malloc_buffer(Heap, Buf2, sz) } :
              /\ Apply(H)
              /\ last' = Call("add", sz, NULL, << >>)
    /\ UNCHANGED << live, free0 >>

\* set_external_alloc( allocator ) with a callback or with NULL
SetExternalAlloc ==
    /\ context # NULL
    /\ ~fault
    /\ \E on \in BOOLEAN :
          /\ external_alloc' = on
          /\ last' = Call("set", NULL, NULL, << >>)
    /\ UNCHANGED << context, mem, free_memory, last_chunk_size, last_chunk,
                    fill, buffers, grown, live, free0, fault >>

\* p = malloc( s ); the caller keeps p when it is not NULL, and fills the s
\* bytes it asked for. The callback's answer is drawn only when a callback is
\* installed, for out_of_memory calls none otherwise.
MallocOf(most, sizes) ==
    /\ context # NULL
    /\ ~fault
    /\ Cardinality(DOMAIN live) < most
    /\ \E s \in sizes :
       \E cb \in IF external_alloc THEN CbOutcomes ELSE { CHOOSE c \in CbOutcomes : TRUE } :
          \E r \in { malloc(Heap, s, cb) } :
              /\ Apply([r.H EXCEPT !.mem =
                           IF r.ret = NULL THEN @ ELSE CallerWrites(@, r.ret, s)])
              /\ live' = IF r.ret = NULL THEN live
                         ELSE [p \in DOMAIN live \cup {r.ret} |->
                                  IF p = r.ret THEN s ELSE live[p]]
              /\ last' = Call("malloc", s, r.ret, r.H.calls)
    /\ UNCHANGED free0

Malloc == MallocOf(MaxLive, ReqSizes)

\* malloc for a caller that holds up to TieLive chunks of the sizes TieSizes
MallocTie == MallocOf(TieLive, TieSizes)

\* init_malloc and malloc of the runs of the locality heuristic
InitMallocLocal == InitMallocOf({ SizeofContext + LocalHeapBytes })

MallocLocal == MallocOf(MaxLive, LocalSizes)

\* free( p ) of a pointer the caller holds, or of NULL
Free ==
    /\ context # NULL
    /\ ~fault
    /\ \E p \in DOMAIN live \cup {NULL} :
          \E H \in { free(Heap, p) } :
              /\ Apply(H)
              /\ live' = [q \in DOMAIN live \ {p} |-> live[q]]
              /\ last' = Call("free", p, NULL, << >>)
    /\ UNCHANGED free0

\* free( p ) once more, right after free( p ): the caller kept the pointer
\* and releases it again with no other call in between
DoubleFree ==
    /\ context # NULL
    /\ ~fault
    /\ last.op = "free"
    /\ last.arg # NULL
    /\ \E H \in { free(Heap, last.arg) } :
          /\ Apply(H)
          /\ last' = Call("free again", last.arg, NULL, << >>)
    /\ UNCHANGED << live, free0 >>

\* the byte at a: the cell stored over it and the offset in the cell, or
\* the buffer's prior contents
Byte(m, a) ==
    LET over == { b \in ((a - PtrSize + 1)..a) \cap DOMAIN m :
                     a < b + Width(m[b].k) }
    IN  IF over = {} THEN << "fill" >>
        ELSE << m[CHOOSE b \in over : TRUE], a - (CHOOSE b \in over : TRUE) >>

\* the end of the user region of the chunk behind p, in memory m
RegionEnd(m, p) ==
    p - SizeofInuseHeader + size(m, p - SizeofInuseHeader) - SizeofFooter

\* the first k bytes at q in memory m2 are the first k bytes at p in m1
SameBytes(m1, p, m2, q, k) ==
    \A i \in 0..(k - 1) : Byte(m2, q + i) = Byte(m1, p + i)

Min(a, b) == IF a < b THEN a ELSE b

\* q = realloc( p, n ) of a pointer the caller holds, or of NULL.  When q is
\* not NULL the caller holds q in place of p and fills the n bytes it asked
\* for; writing them past the end of the chunk is a buffer overflow, after
\* which nothing is modelled (fault).  `kept`: the bytes q held on return
\* were those of p, as far as both regions reach.
Realloc ==
    /\ context # NULL
    /\ ~fault
    /\ \E p \in DOMAIN live \cup
                  (IF Cardinality(DOMAIN live) < MaxLive THEN {NULL} ELSE {}) :
       \E n \in ReqSizes :
       \E cb \in IF external_alloc THEN CbOutcomes ELSE { CHOOSE c \in CbOutcomes : TRUE } :
          \E r \in { realloc(Heap, p, n, cb) } :
              /\ Apply(IF r.ret = NULL THEN r.H
                       ELSE IF RegionEnd(r.H.mem, r.ret) < r.ret + n
                       THEN Fault(r.H)
                       ELSE [r.H EXCEPT !.mem = CallerWrites(@, r.ret, n)])
              /\ live' = IF r.ret = NULL THEN live
                         ELSE [q \in (DOMAIN live \ {p}) \cup {r.ret} |->
                                  IF q = r.ret THEN n ELSE live[q]]
              /\ last' = [op |-> "realloc", arg |-> n, ret |-> r.ret,
                          calls |-> r.H.calls, ptr |-> p, copied |-> r.copied,
                          length |-> IF r.ret = NULL THEN 0
                                     ELSE RegionEnd(r.H.mem, r.ret) - r.ret,
                          kept |-> \/ p = NULL
                                   \/ r.ret = NULL
                                   \/ SameBytes(mem, p, r.H.mem, r.ret,
                                                Min(RegionEnd(mem, p) - p, n))]
    /\ UNCHANGED free0

\* init_malloc, add_malloc_buffer, malloc and free; no growth callback is
\* ever installed, so out_of_memory returns NULL
\* find_bin( sz ) on its own, in an initialised context that it leaves as
\* it is
FindBin ==
    /\ context # NULL
    /\ ~fault
    /\ \E sz \in ProbeSizes :
          last' = Call("find_bin", sz, find_bin(context, sz), << >>)
    /\ UNCHANGED << context, mem, free_memory, last_chunk_size, external_alloc,
                    last_chunk, fill, buffers, grown, live, free0, fault >>

Next == InitMalloc \/ AddBuffer \/ Malloc \/ Free

Spec == Init /\ [][Next]_vars

\* init_malloc, then malloc and free alone
NextAllocFree == InitMalloc \/ Malloc \/ Free

SpecAllocFree == Init /\ [][NextAllocFree]_vars

\* init_malloc, malloc and free with a growth callback installed or removed
\* by set_external_alloc: buffers are added by out_of_memory
NextGrow == InitMallocSmall \/ SetExternalAlloc \/ Malloc \/ Free

SpecGrow == Init /\ [][NextGrow]_vars

\* init_malloc, then malloc, realloc and free
NextRealloc == InitMalloc \/ Malloc \/ Realloc \/ Free

SpecRealloc == Init /\ [][NextRealloc]_vars

\* init_malloc, then malloc and free, and free of the pointer just freed
NextDoubleFree == InitMalloc \/ Malloc \/ Free \/ DoubleFree

SpecDoubleFree == Init /\ [][NextDoubleFree]_vars

\* init_malloc, then malloc and free for a caller that holds up to TieLive
\* chunks of two sizes
NextTie == InitMalloc \/ MallocTie \/ Free

SpecTie == Init /\ [][NextTie]_vars

\* init_malloc on a buffer for two chunks above MAX_SMALL_REQUEST, then
\* malloc and free
NextLocal == InitMallocLocal \/ MallocLocal \/ Free

SpecLocal == Init /\ [][NextLocal]_vars

\* find_bin alone, over the sizes around every entry of bin_sizes
NextFindBin == InitMalloc \/ FindBin

SpecFindBin == Init /\ [][NextFindBin]_vars


\* ------------------------------------------------- the heap, read back
Bins == 0..(BIN_NUMBER - 1)

\* the headers met from a up to end, each found at header + header.size of
\* the one before; the walk stops at a header whose size cannot be a chunk's
RECURSIVE ChunksFrom(_, _, _)
ChunksFrom(m, a, end) ==
    IF a >= end THEN << >>
    ELSE IF size(m, a) < MIN_INUSE_CHUNK_SIZE THEN << a >>
    ELSE << a >> \o ChunksFrom(m, a + size(m, a), end)

\* the chunks between the two sentinels of buffer b = <<address, size>>
Chunks(b) == ChunksFrom(mem, b[1] + SizeofBound, b[1] + b[2] - SizeofBound)

\* the chunks linked from c on, by next, until the list is back at bin
RECURSIVE ListFrom(_, _, _, _)
ListFrom(m, bin, c, seen) ==
    IF c = bin \/ c \in seen THEN << >>
    ELSE << c >> \o ListFrom(m, bin, next(m, c), seen \cup {c})

\* the list of bin i, without the bin itself
BinList(i) ==
    ListFrom(mem, BinAddr(context, i), next(mem, BinAddr(context, i)), {})

Range(s) == { s[k] : k \in DOMAIN s }

\* every chunk linked in a bin
Binned == IF context = NULL THEN {} ELSE UNION { Range(BinList(i)) : i \in Bins }

\* every chunk of every buffer whose status is FREE
FreeChunks ==
    UNION { { c \in Range(Chunks(b)) : status(mem, c) = FREE_STATUS } : b \in buffers }

RECURSIVE SumSizes(_)
SumSizes(S) ==
    IF S = {} THEN 0
    ELSE LET c == CHOOSE x \in S : TRUE IN size(mem, c) + SumSizes(S \ {c})

\* the end of the user region of the allocation at p
UserEnd(p) ==
    p - SizeofInuseHeader + size(mem, p - SizeofInuseHeader) - SizeofFooter

Overlap(a1, e1, a2, e2) == a1 < e2 /\ a2 < e1

\* the header words stored strictly inside free chunk c: those of the
\* neighbours c took in
AbsorbedHeaders(c) ==
    { a \in DOMAIN mem :
         /\ c < a
         /\ a < c + size(mem, c) - SizeofFooter
         /\ mem[a].k = "h" }

Absorbed(c) == AbsorbedHeaders(c) # {}

\* ---------------------------------------------------------------- claims
\* C1: after any sequence of init_malloc, add_malloc_buffer, malloc and free
\* no assertion has failed, and the user region of every live allocation
\* lies between the sentinels of a registered buffer, is at least as long
\* as the bytes asked for, and overlaps no other live user region, no chunk
\* linked in a bin and no sentinel.
C1_NoOverlap ==
    /\ ~fault
    /\ \A p \in DOMAIN live :
          /\ UserEnd(p) - p >= live[p]
          /\ \E b \in buffers :
                /\ b[1] + SizeofBound <= p - SizeofInuseHeader
                /\ UserEnd(p) + SizeofFooter <= b[1] + b[2] - SizeofBound
          /\ \A q \in DOMAIN live \ {p} : ~Overlap(p, UserEnd(p), q, UserEnd(q))
          /\ \A c \in Binned \cup FreeChunks :
                ~Overlap(p, UserEnd(p), c, c + size(mem, c))
          /\ \A b \in buffers :
                /\ ~Overlap(p, UserEnd(p), b[1], b[1] + SizeofBound)
                /\ ~Overlap(p, UserEnd(p), b[1] + b[2] - SizeofBound, b[1] + b[2])

\* C1's case: malloc has just returned a second live pointer, beside a
\* free chunk, with two buffers registered
C1_Witness ==
    /\ last.op = "malloc"
    /\ last.ret # NULL
    /\ live # <<>>
    /\ Binned # {}
    /\ Cardinality(buffers) = 2

\* C2: every registered buffer starts and ends with an in-use sentinel of
\* sizeof( struct bound ), and the headers found by stepping header.size from
\* the first sentinel's end land exactly on the last sentinel; every chunk on
\* the way has header.size = footer.size.
C2_Tiling ==
    \A b \in buffers :
       /\ status(mem, b[1]) = INUSE_STATUS
       /\ size(mem, b[1]) = SizeofBound
       /\ fsize(mem, b[1] + SizeofInuseHeader) = SizeofBound
       /\ status(mem, b[1] + b[2] - SizeofBound) = INUSE_STATUS
       /\ size(mem, b[1] + b[2] - SizeofBound) = SizeofBound
       /\ fsize(mem, b[1] + b[2] - SizeofFooter) = SizeofBound
       /\ Chunks(b) # << >>
       /\ \A k \in DOMAIN Chunks(b) :
             LET c == Chunks(b)[k]
             IN  /\ size(mem, c) >= MIN_INUSE_CHUNK_SIZE
                 /\ size(mem, c) = fsize(mem, c + size(mem, c) - SizeofFooter)
                 /\ c + size(mem, c) <= b[1] + b[2] - SizeofBound

\* C2's case: a buffer tiled by three chunks, one of them in use
C2_Witness ==
    \E b \in buffers :
       /\ Len(Chunks(b)) >= 3
       /\ \E p \in DOMAIN live : p - SizeofInuseHeader \in Range(Chunks(b))

\* C3: context->free_memory is the sum of the sizes of the chunks linked in
\* the bins.
C3_FreeMemory == context # NULL => free_memory = SumSizes(Binned)

\* C3's case: two chunks are linked in the bins while an allocation is live
C3_Witness ==
    /\ Cardinality(Binned) >= 2
    /\ live # << >>
    /\ free_memory > 0

\* C4: no two chunks that follow each other in a buffer are both FREE.
C4_Coalesced ==
    \A b \in buffers :
       \A k \in 1..(Len(Chunks(b)) - 1) :
          ~(/\ status(mem, Chunks(b)[k]) = FREE_STATUS
            /\ status(mem, Chunks(b)[k + 1]) = FREE_STATUS)

\* C4's case: free has just joined the chunk it was given with a neighbour,
\* and an allocation is still live
C4_Witness ==
    /\ last.op = "free"
    /\ last.arg # NULL
    /\ live # << >>
    /\ \E c \in Binned : Absorbed(c)

\* bin_sizes[ i ] <= sz < bin_sizes[ i + 1 ]; the last bin has no bin_sizes
\* entry above it
InClass(i, sz) ==
    /\ BinSizeLE(i, sz)
    /\ i + 1 < BIN_NUMBER => ~BinSizeLE(i + 1, sz)

\* the bin and its list, closed: a.next = b and b.prev = a all the way round
RingConsistent(i) ==
    LET ring == << BinAddr(context, i) >> \o BinList(i)
    IN  \A k \in DOMAIN ring :
           LET a == ring[k]
               b == ring[(k % Len(ring)) + 1]
           IN  next(mem, a) = b /\ prev(mem, b) = a

\* C5: every FREE chunk of every buffer is linked once, in one bin; the bin
\* holding a chunk is the one whose class has the chunk's size; every bin
\* list is a consistent circular doubly-linked list through the bin; what
\* is linked in a bin is a FREE chunk of a buffer, no in-use chunk and no
\* sentinel.
C5_Bins ==
    context # NULL =>
       /\ \A i \in Bins :
             /\ RingConsistent(i)
             /\ \A c \in Range(BinList(i)) :
                   /\ c \in FreeChunks
                   /\ InClass(i, size(mem, c))
       /\ \A c \in FreeChunks :
             Cardinality({ i \in Bins : c \in Range(BinList(i)) }) = 1

\* C5's case: a bin holds two chunks of different sizes while an allocation
\* is live
C5_Witness ==
    /\ live # << >>
    /\ \E i \in Bins :
          /\ Len(BinList(i)) >= 2
          /\ size(mem, BinList(i)[1]) # size(mem, BinList(i)[2])

\* C6: check_malloc() returns NULL after every call of init_malloc,
\* add_malloc_buffer, malloc and free.
C6_AuditNull == (context # NULL /\ ~fault) => check_malloc(Heap) = NULL

\* what free( p ) leaves, called right after p = malloc( s ) returned r and
\* the caller filled its s bytes
Released(r, s) == free([r.H EXCEPT !.mem = CallerWrites(@, r.ret, s)], r.ret)

\* C7: in every reachable state, for every request that malloc answers
\* with a pointer p, free( p ) right after it leaves free_memory at the value
\* it had before the malloc, and check_malloc() returns NULL.
C7_RoundTrip ==
    (context # NULL /\ ~fault) =>
       \A s \in ReqSizes, cb \in CbOutcomes :
          Let(malloc(Heap, s, cb), LAMBDA r :
              r.ret # NULL =>
                 Let(Released(r, s), LAMBDA H2 :
                     /\ ~H2.fault
                     /\ H2.free_memory = free_memory
                     /\ check_malloc(H2) = NULL))

\* C8: with only malloc and free called since init_malloc, whenever the
\* caller holds no pointer free_memory is what it was right after
\* init_malloc, and every buffer holds one chunk, FREE, from its first
\* sentinel to its last.
C8_AllReleased ==
    (context # NULL /\ live = << >>) =>
       /\ free_memory = free0
       /\ \A b \in buffers :
             /\ Chunks(b) = << b[1] + SizeofBound >>
             /\ status(mem, b[1] + SizeofBound) = FREE_STATUS
             /\ size(mem, b[1] + SizeofBound) = b[2] - 2 * SizeofBound
       /\ Cardinality(Binned) <= Cardinality(buffers)

\* C8's case: free has just released the last pointer held, and the free
\* chunk it made took in two other chunks
C8_Witness ==
    /\ last.op = "free"
    /\ last.arg # NULL
    /\ live = << >>
    /\ \E c \in Binned : Cardinality(AbsorbedHeaders(c)) >= 2

\* C9: a malloc that returns NULL changes no field of the context and no
\* stored byte, and fails no assertion: with no callback installed, and with
\* a callback that returns NULL or fewer bytes than asked.
C9_NullUnchanged ==
    [][(last'.op = "malloc" /\ last'.ret = NULL)
          => (UNCHANGED ctxvars /\ ~fault')]_vars

\* C9's case: malloc has just returned NULL with a callback installed that
\* still had a region to give, while an allocation is live
C9_Witness ==
    /\ last.op = "malloc"
    /\ last.ret = NULL
    /\ external_alloc
    /\ grown < MaxGrow
    /\ live # << >>

\* C10: free( NULL ) changes no field of the context and no stored byte, and
\* fails no assertion.
C10_FreeNull ==
    [][(last'.op = "free" /\ last'.arg = NULL)
          => (UNCHANGED ctxvars /\ ~fault')]_vars

\* C10's case: free( NULL ) has just returned, with an allocation live and
\* a chunk in the bins
C10_Witness ==
    /\ last.op = "free"
    /\ last.arg = NULL
    /\ live # << >>
    /\ Binned # {}

\* C11: whenever realloc( p, n ) of a live pointer returns a pointer q that
\* is not NULL, the user region behind q holds at least n bytes, its first
\* min( old user size, n ) bytes are those p held, and when the chunk was
\* moved (q # p) memcpy was given exactly min( old user size, n ) bytes.
C11_Resize ==
    [][(last'.op = "realloc" /\ last'.ptr # NULL /\ last'.ret # NULL) =>
          /\ last'.length >= last'.arg
          /\ last'.kept
          /\ last'.ret # last'.ptr =>
                last'.copied =
                   Min(RegionEnd(mem, last'.ptr) - last'.ptr, last'.arg)]_vars

\* C12: realloc( p, n ) of a live pointer whose chunk cannot hold n bytes
\* takes in the next chunk in place (p returned, the chunk grown by the next
\* chunk's size, the next chunk out of its bin, free_memory less by its size)
\* exactly when the next chunk is FREE and the two sizes together are at
\* least n + MIN_INUSE_CHUNK_SIZE; otherwise the chunk behind p does not grow.
C12_Absorb ==
    [][(/\ last'.op = "realloc"
        /\ last'.ptr # NULL
        /\ size(mem, last'.ptr - SizeofInuseHeader)
              < last'.arg + MIN_INUSE_CHUNK_SIZE) =>
          LET header      == last'.ptr - SizeofInuseHeader
              held        == size(mem, header)
              next_header == header + held
              fits        == /\ status(mem, next_header) = FREE_STATUS
                             /\ held + size(mem, next_header)
                                   >= last'.arg + MIN_INUSE_CHUNK_SIZE
          IN  IF fits
              THEN /\ last'.ret = last'.ptr
                   /\ size(mem', header) = held + size(mem, next_header)
                   /\ next_header \notin Binned'
                   /\ free_memory' = free_memory - size(mem, next_header)
              ELSE size(mem', header) <= held]_vars

\* C13: after any sequence of malloc, realloc and free, every chunk between
\* the sentinels of a buffer, in use or free, has a size of at least
\* MIN_FREE_CHUNK_SIZE, the size add_free_chunk asserts when the chunk is
\* freed.
C13_MinChunk ==
    \A b \in buffers :
       \A k \in DOMAIN Chunks(b) :
          size(mem, Chunks(b)[k]) >= MIN_FREE_CHUNK_SIZE


\* C14: release validates its argument: a second release of the same pointer
\* with no allocate in between, whatever the chunk's neighbours were at the
\* first release, fails the status/size assertions of free, and so changes
\* neither free_memory nor any stored cell (bin lists included).
C14_DoubleFree ==
    [][last'.op = "free again" => (fault' /\ UNCHANGED ctxvars)]_vars

\* C15: right after init_malloc( buffer, size ) with size >= sizeof( struct
\* memory_context ), whatever the buffer held before: context is the buffer,
\* last_chunk_size is 0, there is no growth callback, every bin has status
\* FREE and size sizeof( struct free_header ) and links to itself, except the
\* one bin that holds the first free chunk, free_memory is that chunk's size
\* (0 when the rest of the buffer is too small for one), and check_malloc
\* returns NULL.
C15_Initialised ==
    last.op = "init" =>
       LET room  == last.arg - SizeofContext
           has   == room >= 2 * SizeofBound + MIN_FREE_CHUNK_SIZE
           chunk == Buf1 + SizeofContext + SizeofBound
           own(i) == /\ next(mem, BinAddr(context, i)) = BinAddr(context, i)
                     /\ prev(mem, BinAddr(context, i)) = BinAddr(context, i)
           holds(i) == /\ next(mem, BinAddr(context, i)) = chunk
                       /\ prev(mem, BinAddr(context, i)) = chunk
       IN  /\ context = Buf1
           /\ last_chunk_size = 0
           /\ ~external_alloc
           /\ \A i \in Bins :
                 /\ status(mem, BinAddr(context, i)) = FREE_STATUS
                 /\ size(mem, BinAddr(context, i)) = SizeofFreeHeader
                 /\ own(i) \/ (has /\ holds(i))
           /\ Cardinality({ i \in Bins : ~own(i) }) = IF has THEN 1 ELSE 0
           /\ has => /\ status(mem, chunk) = FREE_STATUS
                      /\ size(mem, chunk) = room - 2 * SizeofBound
           /\ free_memory = IF has THEN room - 2 * SizeofBound ELSE 0
           /\ check_malloc(Heap) = NULL

\* C16: add_malloc_buffer( buf, size ) with size below 2 * sizeof( struct
\* bound ) + MIN_FREE_CHUNK_SIZE changes nothing: not free_memory, not a bin,
\* not a byte of the buffer. Otherwise the buffer holds an in-use sentinel,
\* one free chunk of size - 2 * sizeof( struct bound ) bytes and an in-use
\* sentinel, that chunk is the one chunk added to the bins, free_memory grows
\* by exactly its size, and the chunks of the buffers there were, and what
\* the caller holds and wrote there, are as before.
C16_AddBuffer ==
    [][last'.op = "add" =>
         IF last'.arg < 2 * SizeofBound + MIN_FREE_CHUNK_SIZE
         THEN UNCHANGED << ctxvars, buffers, live >>
         ELSE LET sz    == last'.arg - 2 * SizeofBound
                  chunk == Buf2 + SizeofBound
                  far   == Buf2 + last'.arg - SizeofBound
              IN  /\ status(mem', Buf2) = INUSE_STATUS
                  /\ size(mem', Buf2) = SizeofBound
                  /\ status(mem', far) = INUSE_STATUS
                  /\ size(mem', far) = SizeofBound
                  /\ status(mem', chunk) = FREE_STATUS
                  /\ size(mem', chunk) = sz
                  /\ fsize(mem', far - SizeofFooter) = sz
                  /\ chunk \notin Binned
                  /\ Binned' = Binned \cup {chunk}
                  /\ free_memory' = free_memory + sz
                  /\ buffers' = buffers \cup {<<Buf2, last'.arg>>}
                  /\ \A b \in buffers :
                        /\ Chunks(b)' = Chunks(b)
                        /\ \A c \in Range(Chunks(b)) :
                              /\ status(mem', c) = status(mem, c)
                              /\ size(mem', c) = size(mem, c)
                              /\ fsize(mem', c + size(mem, c) - SizeofFooter)
                                    = fsize(mem, c + size(mem, c) - SizeofFooter)
                  /\ live' = live
                  /\ \A q \in DOMAIN live :
                        SameBytes(mem, q, mem', q, live[q])]_vars

\* a buffer was added while the caller held an allocation and the first
\* buffer had a free chunk
C16_Witness ==
    /\ last.op = "add"
    /\ last.arg = Buf2Bytes
    /\ ~fault
    /\ live # << >>
    /\ Cardinality(Binned) = 2
    /\ free_memory > Buf2Bytes - 2 * SizeofBound

\* C17: the buffers start at multiples of the alignment of the header word;
\* then every pointer malloc returned, and the header of every chunk of every
\* buffer, is at a multiple of that alignment, whatever byte counts were
\* asked for.
C17_Aligned ==
    /\ \A p \in DOMAIN live : p % HeaderAlign = 0
    /\ \A b \in buffers :
          b[1] % HeaderAlign = 0 =>
             \A c \in Range(Chunks(b)) : c % HeaderAlign = 0

\* C18, as stated: when malloc( s ) runs out of memory with a growth callback
\* installed, every call of the callback gets min_bytes = s +
\* 2 * MIN_INUSE_CHUNK_SIZE, s being the byte count the caller asked for.
C18_MinBytesOfRequest ==
    last.op = "malloc" =>
       \A i \in DOMAIN last.calls :
          last.calls[i] = last.arg + 2 * MIN_INUSE_CHUNK_SIZE

\* C18, amended: every call of the callback gets min_bytes = c +
\* 2 * MIN_INUSE_CHUNK_SIZE, c being the chunk size malloc looks for:
\* s + MIN_INUSE_CHUNK_SIZE, or MIN_FREE_CHUNK_SIZE when that is more.
C18_MinBytesOfChunk ==
    last.op = "malloc" =>
       \A i \in DOMAIN last.calls :
          last.calls[i] =
             (IF last.arg + MIN_INUSE_CHUNK_SIZE > MIN_FREE_CHUNK_SIZE
              THEN last.arg + MIN_INUSE_CHUNK_SIZE
              ELSE MIN_FREE_CHUNK_SIZE) + 2 * MIN_INUSE_CHUNK_SIZE

\* malloc( 21 ) ran out of memory, called the callback and got its chunk
\* from the region the callback gave
C18_Witness ==
    /\ last.op = "malloc"
    /\ last.arg = 21
    /\ last.calls # << >>
    /\ last.ret >= GrowBase
    /\ ~fault

\* C19: one malloc( s ) calls the growth callback at most once; and when the
\* callback gave a region of at least the bytes it was asked for, the region
\* is registered as a buffer and malloc returns a pointer that is not NULL
\* and has at least s bytes.
C19_OneGrowth ==
    [][last'.op = "malloc" =>
         /\ Len(last'.calls) <= 1
         /\ grown' # grown =>
               LET at == GrowBase + grown * GrowStride
               IN  /\ Len(last'.calls) = 1
                   /\ \E b \in buffers' \ buffers :
                         /\ b[1] = at
                         /\ b[2] >= last'.calls[1]
                         /\ buffers' = buffers \cup {b}
                   /\ last'.ret # NULL
                   /\ RegionEnd(mem', last'.ret) - last'.ret >= last'.arg
                   /\ ~fault']_vars

\* malloc( 0 ) ran out of memory, called the callback once and returned a
\* pointer into the region the callback gave
C19_Witness ==
    /\ last.op = "malloc"
    /\ last.arg = 0
    /\ Len(last.calls) = 1
    /\ grown = 1
    /\ last.ret > GrowBase
    /\ last.ret \in DOMAIN live

\* the free chunks of size s, in the order of the list of the bin of their
\* class
SameSize(s) ==
    IF context = NULL THEN << >>
    ELSE SelectSeq(BinList(CHOOSE i \in Bins : InClass(i, s)),
                   LAMBDA c : size(mem, c) = s)

\* the sizes of the free chunks
Sizes == IF context = NULL THEN {} ELSE { size(mem, c) : c \in Binned }

\* C20: among free chunks of one size, the one inserted earliest is the one
\* the next malloc that looks for that size returns. In every call: the free
\* chunks of a size that stay keep their order in the list, every chunk the
\* call inserts comes after them, and a malloc that looks for a size some
\* free chunk has returns the first chunk of that size in the list. And
\* after A, B, C were allocated from the one buffer and released, A then C
\* then B or in any order, so that nothing is held, the next malloc returns
\* A's address, the first of the buffer.
C20_Fifo ==
    [][~fault' =>
         /\ \A s \in Sizes \cup Sizes' :
               SameSize(s)' =
                  SelectSeq(SameSize(s), LAMBDA c : c \in Range(SameSize(s)'))
                  \o SelectSeq(SameSize(s)', LAMBDA c : c \notin Range(SameSize(s)))
         /\ last'.op = "malloc" =>
               LET need == IF last'.arg + MIN_INUSE_CHUNK_SIZE > MIN_FREE_CHUNK_SIZE
                           THEN last'.arg + MIN_INUSE_CHUNK_SIZE
                           ELSE MIN_FREE_CHUNK_SIZE
               IN  SameSize(need) # << >> =>
                      last'.ret = Head(SameSize(need)) + SizeofInuseHeader
         /\ (last'.op = "malloc" /\ last.op = "free" /\ last.arg # NULL
                                  /\ live = << >>) =>
               last'.ret = Buf1 + SizeofContext + SizeofBound + SizeofInuseHeader]_vars

\* malloc returned a chunk and passed over a free chunk of the same size
\* at a lower address: that one was inserted later
C20_Witness ==
    /\ last.op = "malloc"
    /\ last.ret # NULL
    /\ ~fault
    /\ \E c \in Binned :
          /\ c < last.ret
          /\ size(mem, c) = size(mem, last.ret - SizeofInuseHeader)

\* C21: a malloc( s ) that succeeds takes a free chunk of some size c, with
\* need = s + MIN_INUSE_CHUNK_SIZE raised to MIN_FREE_CHUNK_SIZE. When
\* c - need >= MIN_FREE_CHUNK_SIZE the in-use chunk has size need, a free
\* chunk of c - need bytes at header + need is linked in the bins, and it is
\* last_chunk with last_chunk_size = c - need. Otherwise the in-use chunk has
\* size c, no free chunk lies in it and last_chunk_size is 0. Either way
\* free_memory falls by the in-use chunk's size, which is at least need and
\* less than need + MIN_FREE_CHUNK_SIZE.
C21_Split ==
    [][(last'.op = "malloc" /\ last'.ret # NULL) =>
         LET header == last'.ret - SizeofInuseHeader
             c      == size(mem, header)
             need   == IF last'.arg + MIN_INUSE_CHUNK_SIZE > MIN_FREE_CHUNK_SIZE
                       THEN last'.arg + MIN_INUSE_CHUNK_SIZE
                       ELSE MIN_FREE_CHUNK_SIZE
             held   == size(mem', header)
         IN  /\ header \in Binned
             /\ status(mem', header) = INUSE_STATUS
             /\ fsize(mem', header + held - SizeofFooter) = held
             /\ IF c - need >= MIN_FREE_CHUNK_SIZE
                THEN /\ held = need
                     /\ Binned' = (Binned \ {header}) \cup {header + need}
                     /\ status(mem', header + need) = FREE_STATUS
                     /\ size(mem', header + need) = c - need
                     /\ last_chunk' = header + need
                     /\ last_chunk_size' = c - need
                ELSE /\ held = c
                     /\ Binned' = Binned \ {header}
                     /\ last_chunk_size' = 0
             /\ free_memory' = free_memory - held
             /\ need <= held
             /\ held < need + MIN_FREE_CHUNK_SIZE
             /\ ~fault']_vars

\* malloc( 21 ) split a chunk and left a remainder that is last_chunk, while
\* the caller holds another chunk
C21_Witness ==
    /\ last.op = "malloc"
    /\ last.arg = 21
    /\ last.ret # NULL
    /\ last_chunk = last.ret - SizeofInuseHeader + 21 + MIN_INUSE_CHUNK_SIZE
    /\ last_chunk_size >= MIN_FREE_CHUNK_SIZE
    /\ last_chunk \in Binned
    /\ live # <<>>

\* the free chunks of at least sz bytes
Fitting(sz) == { c \in Binned : size(mem, c) >= sz }

Found(sz) ==
    LET least == CHOOSE c \in Fitting(sz) :
                    \A d \in Fitting(sz) : size(mem, c) <= size(mem, d)
    IN  Head(SameSize(size(mem, least)))

C24_NullIffNoFit ==
    [][(last'.op = "malloc" /\ ~external_alloc) =>
         LET need == IF last'.arg + MIN_INUSE_CHUNK_SIZE > MIN_FREE_CHUNK_SIZE
                     THEN last'.arg + MIN_INUSE_CHUNK_SIZE
                     ELSE MIN_FREE_CHUNK_SIZE
         IN  /\ (last'.ret = NULL) <=> (Fitting(need) = {})
             /\ ~fault']_vars

\* malloc( 60 ) returned NULL although free_memory covers the 68 bytes it
\* needs: the free bytes are in chunks that are each too small
C24_Witness ==
    /\ last.op = "malloc"
    /\ last.arg = 60
    /\ last.ret = NULL
    /\ free_memory >= 60 + MIN_INUSE_CHUNK_SIZE
    /\ Cardinality(Binned) >= 2
    /\ ~fault

BinSizes(i) == [k \in DOMAIN BinList(i) |-> size(mem, BinList(i)[k])]

\* C26: every bin list, read from the bin's next pointer on, is sorted by
\* non-decreasing chunk size; so the chunk find_chunk stops at is the
\* smallest chunk of the bin that fits, or the bin when none fits.
C26_Sorted ==
    context # NULL =>
       \A i \in Bins :
          BinAddr(context, i) # next(mem, BinAddr(context, i)) =>
             /\ \A j, k \in DOMAIN BinSizes(i) :
                   j < k => BinSizes(i)[j] <= BinSizes(i)[k]
             /\ \A sz \in { size(mem, c) : c \in Range(BinList(i)) } \cup
                           { size(mem, c) + 1 : c \in Range(BinList(i)) } :
                   LET hit  == find_chunk(mem, BinAddr(context, i), sz)
                       fits == { c \in Range(BinList(i)) : size(mem, c) >= sz }
                   IN  IF fits = {} THEN hit = BinAddr(context, i)
                       ELSE /\ hit \in fits
                            /\ \A c \in fits : size(mem, hit) <= size(mem, c)

\* a bin holds three chunks, the first smaller than the last, and the last
\* call was a free that inserted a chunk
C26_Witness ==
    /\ context # NULL
    /\ ~fault
    /\ last.op = "free"
    /\ last.arg # NULL
    /\ \E i \in Bins :
          /\ Len(BinList(i)) = 3
          /\ BinSizes(i)[1] < BinSizes(i)[3]

\* the steps a walk by next from chunk c takes to come to bin, n being taken
\* already; most + 1 when it has not come there after most steps
RECURSIVE WalkSteps(_, _, _, _, _)
WalkSteps(m, bin, c, n, most) ==
    IF c = bin THEN n
    ELSE IF n >= most THEN most + 1
    ELSE WalkSteps(m, bin, next(m, c), n + 1, most)

FindBinIndex == (last.ret - BinAddr(context, 0)) \div SizeofFreeHeader

=============================================================================
